---- MODULE Spec2Model ----
(***************************************************************************)
(* Model of client.lock.LockClient (libs/client/src/client/lock.py): the   *)
(* single-instance lock built on an exclusively created lock file and an   *)
(* OS advisory lock, used by several processes that share the lock path.   *)
(*                                                                         *)
(* One LockClient instance lives in each process.  An action is one OS     *)
(* call of the code together with the local statements that follow it up   *)
(* to the next OS call; the interleavings of the processes are the         *)
(* interleavings of these actions.                                         *)
(***************************************************************************)
EXTENDS Integers, Sequences, FiniteSets, TLC

\* Number of processes (each owning one LockClient on the same lock file).
NInst == 3
\* Number of processes whose calls and outcomes are recorded in `trace`, and
\* which also use the composite forms (the with statements, wait()); the other
\* processes make the plain calls these forms consist of.
NObs == 1
\* Number of processes that may terminate without calling release().
MaxCrash == 1
\* Number of completed operations a sequential run records in its history.
MaxHist == 4
\* Number of OS calls of one run that fail for no reason of their semantics.
MaxFaults == 1
\* Largest timeout and interval of a timed wait(), and the longest time a
\* sleep(interval) overruns, in clock ticks.
MaxT == 2
MaxI == 2
MaxLag == 2

Inst == 1..NInst

Observed == 1..NObs

\* Inode numbers; 0 stands for "no file" / None.
Inodes == 1..(NInst + 1)

\* Outcomes the environment may give an OS call: success or an errno.
Errnos == {"EACCES", "EIO"}

AnyOutcome == {"ok"} \cup Errnos

\* The same, with the errno of a filesystem that does not support locking.
EveryOutcome == AnyOutcome \cup {"ENOSYS"}

\* An environment in which an OS call fails only for the reason its
\* semantics gives (file exists, lock held, invalid operation, ...).
NoFault == {"ok"}

VARIABLES
    platform,   \* "posix" or "windows": the cached windows_check()
    path,       \* inode linked at the lock path, 0 when the file is absent
    fd,         \* fd[i]: LockClient._fd, as the inode it was opened on; 0 is None
    desc,       \* desc[i]: inode of the open file description process i owns, 0 if none
    lk,         \* lk[i]: that description holds the OS advisory lock
    pc,         \* pc[i]: position of process i in the operation it runs
    ctx,        \* ctx[i]: the form the running operation belongs to (with, wait)
    trace,      \* trace[i]: calls and outcomes of the current / last operation of i
    wt,         \* wt[i]: timeout, interval and elapsed time of the wait() i runs
    umask,      \* the file mode creation mask of the processes
    pmode,      \* permission bits of the file linked at the lock path, 0 when absent
    mon         \* observer of the run: the acquire race, the sequential history

\* The SocketClient of one process (libs/client/src/client/socket.py).
VARIABLES
    conf,       \* the configuration of the client, its construction, the cached socket_path
    pipe,       \* SocketClient._pipe, as the id of the transport; 0 is None
    transports, \* ids of the transports this process has open
    sctx,       \* "with" inside the body of a with-form of the client, else "none"
    strace,     \* calls and outcomes of the current / last operation of the client
    wire        \* the last send(): its line, the bytes offered, the bytes the peer got

lockvars == <<path, fd, desc, lk, pc, ctx, trace, wt, umask, pmode, mon>>

sockvars == <<conf, pipe, transports, sctx, strace, wire>>

vars == <<platform, lockvars, sockvars>>

windows_check == platform = "windows"

is_locked(i) == fd[i] # 0

----
\* Helpers over the trace of one operation: a sequence of <<name, outcome>>.

Has(tr, entry) == \E k \in 1..Len(tr) : tr[k] = entry

Count(tr, name) == Cardinality({k \in 1..Len(tr) : tr[k][1] = name})

\* Position of the first entry called name, 0 if there is none.
Pos(tr, name) ==
    IF \E k \in 1..Len(tr) : tr[k][1] = name
    THEN CHOOSE k \in 1..Len(tr) : tr[k][1] = name /\ \A m \in 1..(k - 1) : tr[m][1] # name
    ELSE 0

HeldTag(i) == IF is_locked(i) THEN "held" ELSE "free"

\* Only the observed processes keep a trace.
Rec(i, tr) == IF i \in Observed THEN tr ELSE <<>>

----
\* The observer.  faults counts the injected failures of OS calls.
\* mode "plain": nothing else is observed.  mode "race": racers is
\* the set of processes whose acquire() calls overlap in a race that started
\* with the lock file absent and nobody holding the lock, live tells that no
\* release() and no termination has happened since.  mode "seq": operations
\* run one at a time and hist lists them, each with the caller's is_locked
\* at its return.  mode "wait": wobs follows the timed wait() calls, one at
\* a time: the process `who` that called it, its timeout T and interval I, the
\* elapsed time `at` when the last evaluation of exists_running started, the
\* same for the evaluation before (`prev`, -1 if none), the number n of
\* evaluations and the result ("running" until wait() returns).

RaceOpen == path = 0 /\ \A j \in Inst : fd[j] = 0

RaceRunning == mon.live /\ \E j \in mon.racers : pc[j] = "acq_lock"

\* Process i, not holding, calls acquire().
RaceCall(m, i) ==
    IF m.mode # "race" THEN m
    ELSE IF RaceRunning THEN [m EXCEPT !.racers = @ \cup {i}]
    ELSE IF RaceOpen THEN [m EXCEPT !.live = TRUE, !.racers = {i}]
    ELSE [m EXCEPT !.live = FALSE, !.racers = {}]

\* Process i evaluates exists_running: the probes of a race are those of the
\* processes that are not racing.
RaceProbe(m, i) ==
    IF m.mode = "race" /\ i \in m.racers
    THEN [m EXCEPT !.live = FALSE, !.racers = {}]
    ELSE m

\* A holder starts release(), or a process terminates.
RaceSpoil(m) ==
    IF m.mode # "race" THEN m
    ELSE [m EXCEPT !.live = FALSE, !.racers = {}]

\* Operation op of process i returns; res is the caller's is_locked at that
\* moment ("held" / "free") or, for exists_running, its answer.
HistAdd(m, op, i, res) ==
    IF m.mode # "seq" THEN m
    ELSE [m EXCEPT !.hist = Append(@, <<op, i, res>>)]

\* wait(timeout, interval) starts with timing w and evaluates exists_running.
WaitStart(m, i, c, w) ==
    IF m.mode = "wait" /\ c = "wait_T" /\ m.wobs.res # "running"
    THEN [m EXCEPT !.wobs = [who |-> i, T |-> w.T, I |-> w.I, at |-> w.elapsed,
                             prev |-> -1, n |-> 1, res |-> "running"]]
    ELSE m

\* wait() has slept and evaluates exists_running again, with timing w.
WaitEval(m, i, c, w) ==
    IF m.mode = "wait" /\ c = "wait_T" /\ m.wobs.who = i /\ m.wobs.res = "running"
    THEN [m EXCEPT !.wobs = [@ EXCEPT !.prev = m.wobs.at, !.at = w.elapsed,
                                      !.n = m.wobs.n + 1]]
    ELSE m

\* wait() returns res.
WaitDone(m, i, c, res) ==
    IF m.mode = "wait" /\ c = "wait_T" /\ m.wobs.who = i /\ m.wobs.res = "running"
    THEN [m EXCEPT !.wobs.res = res]
    ELSE m

\* The environment may still give outcome e; Fault counts it when it is a failure.
FaultOk(e) == e = "ok" \/ mon.faults < MaxFaults

Fault(m, e) == IF e = "ok" THEN m ELSE [m EXCEPT !.faults = @ + 1]

\* In a sequential run an operation starts only when nothing else runs.
SeqOk(i) ==
    mon.mode = "seq" =>
        /\ Len(mon.hist) < MaxHist
        /\ \A j \in Inst \ {i} : pc[j] \in {"idle", "dead"}

----
\* The operating system, as the calls of lock.py see it.

\* Inodes still referred to by the path, an open description or a stored _fd.
Used == {path} \cup {desc[j] : j \in Inst} \cup {fd[j] : j \in Inst}

\* The inode a newly created file gets: the smallest one nothing refers to.
FreshIno == CHOOSE n \in Inodes : n \notin Used /\ \A m \in Inodes : m < n => m \in Used

\* Another description on the same inode holds the advisory lock.
NoConflict(i) == FALSE

Conflict(i) == \E j \in Inst \ {i} : desc[j] = desc[i] /\ lk[j]

\* LockClient._mode, 0o644.
_mode == 420

\* The masks a process may run under: 0o022 and 0o077.
Umasks == {18, 63}

\* The bits of a that are not bits of b.
RECURSIVE AndNot(_, _)
AndNot(a, b) ==
    IF a = 0 THEN 0
    ELSE (IF a % 2 = 1 /\ b % 2 = 0 THEN 1 ELSE 0) + 2 * AndNot(a \div 2, b \div 2)

\* The permission bits of a file os.open creates with mode m: on POSIX m
\* without the bits of the umask; on Windows only the write bit of m counts
\* and a writable file shows as 0o666.
Created(m) == IF windows_check THEN 438 ELSE AndNot(m, umask)

\* os.open(lockfile, O_RDWR | O_CREAT | O_EXCL, mode): fails with EEXIST when
\* the file is there, else creates it (or fails the way the environment says).
OpenNoExcl(e) == e

OpenExcl(e) ==
    IF e # "ok" THEN e
    ELSE IF path # 0 THEN "EEXIST"
    ELSE "ok"

\* fcntl.flock(fd, flags): an operation that names none of LOCK_SH, LOCK_EX,
\* LOCK_UN is invalid (EINVAL); LOCK_NB makes a held lock fail with EAGAIN.
Flock(i, flags, e) ==
    IF desc[i] = 0 THEN "EBADF"
    ELSE IF flags \cap {"LOCK_SH", "LOCK_EX", "LOCK_UN"} = {} THEN "EINVAL"
    ELSE IF e # "ok" THEN e
    ELSE IF "LOCK_UN" \in flags THEN "ok"
    ELSE IF Conflict(i) THEN "EAGAIN"
    ELSE "ok"

\* msvcrt.locking(fd, mode, 1): LK_NBLCK fails with EACCES when the byte is
\* locked through another handle.
Locking(i, mode, e) ==
    IF desc[i] = 0 THEN "EBADF"
    ELSE IF e # "ok" THEN e
    ELSE IF mode = "LK_NBLCK" /\ Conflict(i) THEN "EACCES"
    ELSE "ok"

\* The lock step of acquire().
AcquireLockCall(i, e) ==
    IF windows_check THEN Locking(i, "LK_NBLCK", e)
    ELSE Flock(i, {"LOCK_EX", "LOCK_NB"}, e)

\* The unlock step of release().
ReleaseUnlockCall(i, e) ==
    IF windows_check THEN Locking(i, "LK_UNLCK", e)
    ELSE Flock(i, {"LOCK_UN"}, e)

\* The lock attempt of exists_running.
ProbeLockCall(i, e) ==
    IF windows_check THEN Locking(i, "LK_NBLCK", e)
    ELSE Flock(i, {"LOCK_NB"}, e)

\* The unlock that follows a successful lock attempt of exists_running.
ProbeUnlockCall(i, e) ==
    IF windows_check THEN Locking(i, "LK_UNLCK", e)
    ELSE Flock(i, {"LOCK_UN"}, e)

\* os.fchmod(fd, mode).
Fchmod(i, e) == IF desc[i] = 0 THEN "EBADF" ELSE e

\* The errnos Python raises as PermissionError.
PermissionErrors == {"EACCES", "EPERM"}

\* lockfile.open('r+'): the file may have gone since exists() saw it.
OpenRW(e) ==
    IF e # "ok" THEN e
    ELSE IF path = 0 THEN "ENOENT"
    ELSE "ok"

\* Path.unlink(missing_ok=True) under suppress(FileNotFoundError): a missing
\* file is not an error; on Windows a file that any handle has open cannot be
\* deleted (sharing violation, raised as PermissionError), on POSIX the name
\* just goes away.
UnlinkSkipped == "missing"

Unlink ==
    IF path = 0 THEN "missing"
    ELSE IF windows_check /\ \E j \in Inst : desc[j] = path THEN "PermissionError"
    ELSE "ok"

----
\* acquire(), and the with-forms that start with it.

\* The lock field of the guard acquire() returns: AcquireLock(lock=self).
GuardLock(i) == i

GuardTag(i) == IF GuardLock(i) = i THEN "guard(self)" ELSE "guard(other)"

\* The caller is in a with-form: "with" in one entered from outside any
\* with-form, "with_in" in one entered from the body of another.
InWith(c) == c \in {"with", "with_in"}

\* Where the caller continues once acquire() has returned its guard.
AfterAcquire(c) == IF InWith(c) THEN "body" ELSE "idle"

\* `if not self.is_locked:` an instance that holds the lock skips the whole
\* attempt.
AcquireAlways(i) == FALSE

AcquireSkips(i) == is_locked(i)

\* The handler of a failed lock step: os.close(self._fd); self._fd = None.
LockFailureLeak(i) == [fd |-> fd[i], desc |-> desc[i]]

AfterLockFailure(i) == [fd |-> 0, desc |-> 0]

\* acquire() up to and including os.open.  kind is "acquire" for a plain call,
\* "with_guard" for `with lock.acquire():`, "with_self" for `with lock:`; tr is
\* the trace of the caller so far and c the context the call puts it in.
AcquireFrom(i, kind, c, tr, e) ==
    /\ SeqOk(i)
    /\ FaultOk(e)
    /\ LET tr0 == Append(tr, <<kind, HeldTag(i)>>)
           r == OpenExcl(e)
           ino == IF path = 0 THEN FreshIno ELSE path
       IN  /\ ctx' = [ctx EXCEPT ![i] = c]
           /\ IF AcquireSkips(i)
              THEN /\ e = "ok"
                   /\ trace' = [trace EXCEPT ![i] =
                                   Rec(i, tr0 \o << <<"return", GuardTag(i)>> >>)]
                   /\ pc' = [pc EXCEPT ![i] = AfterAcquire(c)]
                   /\ mon' = HistAdd(mon, "acquire", i, "held")
                   /\ UNCHANGED <<path, pmode, fd, desc, lk>>
              ELSE IF r = "ok"
              THEN /\ path' = ino
                   /\ pmode' = Created(_mode)
                   /\ fd' = [fd EXCEPT ![i] = ino]
                   /\ desc' = [desc EXCEPT ![i] = ino]
                   /\ trace' = [trace EXCEPT ![i] = Rec(i, tr0 \o << <<"open", "ok">> >>)]
                   /\ pc' = [pc EXCEPT ![i] = "acq_lock"]
                   /\ mon' = RaceCall(mon, i)
                   /\ UNCHANGED lk
              ELSE /\ fd' = [fd EXCEPT ![i] = 0]
                   /\ trace' = [trace EXCEPT ![i] =
                                   Rec(i, tr0 \o << <<"open", r>>, <<"return", GuardTag(i)>> >>)]
                   /\ pc' = [pc EXCEPT ![i] = AfterAcquire(c)]
                   /\ mon' = Fault(HistAdd(RaceCall(mon, i), "acquire", i, "free"), e)
                   /\ UNCHANGED <<path, pmode, desc, lk>>
    /\ UNCHANGED <<platform, sockvars, umask, wt>>

\* acquire(), or a with-form, called from outside any with-form.
Acquire(i, kind, e) ==
    /\ pc[i] = "idle"
    /\ kind # "acquire" => i \in Observed
    /\ AcquireFrom(i, kind, IF kind = "acquire" THEN "none" ELSE "with", <<>>, e)

\* The caller has entered a with-form from the body of the one it is in.
HasNested(tr) == \E k \in 2..Len(tr) : tr[k][1] \in {"with_guard", "with_self"}

\* A with-form entered in the body of another one of the same instance (once
\* per outer with-form).
WithNested(i, kind, e) ==
    /\ pc[i] = "body"
    /\ ctx[i] = "with"
    /\ i \in Observed
    /\ kind \in {"with_guard", "with_self"}
    /\ ~HasNested(trace[i])
    /\ AcquireFrom(i, kind, "with_in", trace[i], e)

AcquireCall(i, e) == Acquire(i, "acquire", e)

WithGuardEnter(i, e) == Acquire(i, "with_guard", e)

WithSelfEnter(i, e) == Acquire(i, "with_self", e)

\* What the handler of a failed lock step logs for errno r, with the level
\* it logs at: `if err.errno != EACCES` warning, `elif err.errno == ENOSYS`
\* exception, `else` exception.
LockFailureLog(r) ==
    IF r # "EACCES" THEN "warning: Permission denied during file lock operation"
    ELSE IF r = "ENOSYS" THEN "exception: Locking not supported on filesystem"
    ELSE "exception: Failed to locking file"

\* acquire() from the lock step to its return; on an OSError the descriptor
\* is closed and _fd reset.
AcquireLockStep(i, e) ==
    /\ pc[i] = "acq_lock"
    /\ FaultOk(e)
    /\ LET r == AcquireLockCall(i, e)
       IN  IF r = "ok"
           THEN /\ lk' = [lk EXCEPT ![i] = TRUE]
                /\ trace' = [trace EXCEPT ![i] =
                                Rec(i, @ \o << <<"lock", "ok">>, <<"return", GuardTag(i)>> >>)]
                /\ mon' = HistAdd(mon, "acquire", i, "held")
                /\ UNCHANGED <<fd, desc>>
           ELSE /\ desc' = [desc EXCEPT ![i] = AfterLockFailure(i).desc]
                /\ fd' = [fd EXCEPT ![i] = AfterLockFailure(i).fd]
                /\ trace' = [trace EXCEPT ![i] =
                                Rec(i, @ \o << <<"lock", r>>, <<"log", LockFailureLog(r)>>,
                                               <<"close", "ok">>,
                                               <<"return", GuardTag(i)>> >>)]
                /\ mon' = Fault(HistAdd(mon, "acquire", i, "free"), e)
                /\ UNCHANGED lk
    /\ pc' = [pc EXCEPT ![i] = AfterAcquire(ctx[i])]
    /\ UNCHANGED <<platform, sockvars, umask, wt, path, pmode, ctx>>

----
\* release(), called directly or by the __exit__ of a with-form.

\* AcquireLock.__exit__ and LockClient.__exit__ return None: an exception
\* raised in the body is not suppressed.
ExitSuppresses == FALSE

\* The trace once release() has ended with `out` ("None": it returned; else the
\* exception it raised); in a with-form this ends the statement:
\* an exception of __exit__ replaces the one of the body.
ReleaseEndTrace(tr, c, out) ==
    LET tr1 == Append(tr, IF out = "None" THEN <<"return", "None">> ELSE <<"raise", out>>)
        final == IF out # "None" THEN out
                 ELSE IF Has(tr, <<"body", "BodyError">>) /\ ~ExitSuppresses THEN "BodyError"
                 ELSE "normal"
    IN  IF InWith(c) THEN Append(tr1, <<"exit", final>>) ELSE tr1

\* Every release() would end the caller's with-forms, the outer one included.
AfterExitEnds(c) == [pc |-> "idle", ctx |-> "none"]

\* Where the caller continues once release() has ended: the __exit__ of a
\* with-form nested in the body of another one hands control back to that
\* body, whose own __exit__ is still to come.
AfterExit(c) ==
    IF c = "with_in" THEN [pc |-> "body", ctx |-> "with"] ELSE [pc |-> "idle", ctx |-> "none"]

\* `if not self.is_locked: return` an instance that does not hold the lock
\* skips the whole release.
ReleaseAlways(i) == FALSE

ReleaseSkips(i) == ~is_locked(i)

\* release() from its call to the start of time.sleep(0.3); tr is the trace
\* of the caller so far.
ReleaseEnter(i, tr) ==
    LET tr1 == Append(tr, <<"release", HeldTag(i)>>)
    IN  /\ IF ReleaseSkips(i)
           THEN /\ trace' = [trace EXCEPT ![i] = Rec(i, ReleaseEndTrace(tr1, ctx[i], "None"))]
                /\ pc' = [pc EXCEPT ![i] = AfterExit(ctx[i]).pc]
                /\ ctx' = [ctx EXCEPT ![i] = AfterExit(ctx[i]).ctx]
                /\ mon' = HistAdd(mon, "release", i, "free")
           ELSE /\ trace' = [trace EXCEPT ![i] = Rec(i, Append(tr1, <<"sleep", "0.3">>))]
                /\ pc' = [pc EXCEPT ![i] = "rel_sleep"]
                /\ mon' = RaceSpoil(mon)
                /\ UNCHANGED ctx
        /\ UNCHANGED <<platform, sockvars, umask, wt, path, pmode, fd, desc, lk>>

ReleaseCall(i) ==
    /\ pc[i] = "idle"
    /\ SeqOk(i)
    /\ ReleaseEnter(i, <<>>)

\* The body of a with-form ends, normally or by an exception, and __exit__
\* calls release().
BodyExit(i, x) ==
    /\ pc[i] = "body"
    /\ SeqOk(i)
    /\ ReleaseEnter(i, Append(trace[i], <<"body", x>>))

\* release() after the sleep: on POSIX fchmod (under suppress(PermissionError))
\* then flock(LOCK_UN), on Windows locking(LK_UNLCK).  e is the environment's
\* answer to fchmod, f to the unlock.  An exception skips close and is logged.
ReleaseUnlock(i, e, f) ==
    /\ pc[i] = "rel_sleep"
    /\ FaultOk(e) /\ FaultOk(f) /\ (e = "ok" \/ f = "ok")
    /\ LET c == IF windows_check THEN "ok" ELSE Fchmod(i, e)
           cpass == c = "ok" \/ c \in PermissionErrors
           u == ReleaseUnlockCall(i, f)
           tr1 == IF windows_check THEN trace[i] ELSE Append(trace[i], <<"fchmod", c>>)
       IN  /\ windows_check => e = "ok"
           /\ ~cpass => f = "ok"
           /\ IF cpass /\ u = "ok"
              THEN /\ lk' = [lk EXCEPT ![i] = FALSE]
                   /\ trace' = [trace EXCEPT ![i] = Rec(i, Append(tr1, <<"unlock", "ok">>))]
                   /\ pc' = [pc EXCEPT ![i] = "rel_close"]
              ELSE /\ trace' = [trace EXCEPT ![i] =
                                  Rec(i, (IF cpass THEN Append(tr1, <<"unlock", u>>) ELSE tr1)
                                         \o << <<"log", "Lock release failed">> >>)]
                   /\ pc' = [pc EXCEPT ![i] = "rel_unlink"]
                   /\ UNCHANGED lk
    /\ pmode' = IF ~windows_check /\ Fchmod(i, e) = "ok" /\ desc[i] = path
                THEN _mode
                ELSE pmode
    /\ mon' = Fault(Fault(mon, e), f)
    /\ UNCHANGED <<platform, sockvars, umask, wt, path, fd, desc, ctx>>

\* What a release() whose unlock and close both went through leaves:
\* os.close(fd) drops the description (and with it any lock), and the else
\* branch resets self._fd.
ReleaseKeepsFd(i) == [fd |-> fd[i], desc |-> 0, lk |-> FALSE]

AfterRelease(i) == [fd |-> 0, desc |-> 0, lk |-> FALSE]

\* release(): os.close(fd), then `self._fd = None` in the else branch.  When
\* close raises, whether the description is gone is up to the OS.
ReleaseClose(i, e, closed) ==
    /\ pc[i] = "rel_close"
    /\ FaultOk(e)
    /\ LET c == IF desc[i] = 0 THEN "EBADF" ELSE e
       IN  IF c = "ok"
           THEN /\ closed
                /\ desc' = [desc EXCEPT ![i] = AfterRelease(i).desc]
                /\ lk' = [lk EXCEPT ![i] = AfterRelease(i).lk]
                /\ fd' = [fd EXCEPT ![i] = AfterRelease(i).fd]
                /\ trace' = [trace EXCEPT ![i] = Rec(i, Append(@, <<"close", "ok">>))]
           ELSE /\ desc' = [desc EXCEPT ![i] = IF closed THEN 0 ELSE @]
                /\ lk' = [lk EXCEPT ![i] = IF closed THEN FALSE ELSE @]
                /\ trace' = [trace EXCEPT ![i] =
                                Rec(i, @ \o << <<"close", c>>, <<"log", "Lock release failed">> >>)]
                /\ UNCHANGED fd
    /\ pc' = [pc EXCEPT ![i] = "rel_unlink"]
    /\ mon' = Fault(mon, e)
    /\ UNCHANGED <<platform, sockvars, umask, wt, path, pmode, ctx>>

\* release(): the unlink that ends it, whatever happened before.
ReleaseUnlink(i) ==
    /\ pc[i] = "rel_unlink"
    /\ LET u == Unlink
       IN  /\ path' = IF u = "ok" THEN 0 ELSE path
           /\ pmode' = IF u = "ok" THEN 0 ELSE pmode
           /\ trace' = [trace EXCEPT ![i] =
                           Rec(i, ReleaseEndTrace(Append(@, <<"unlink", u>>), ctx[i],
                                                  IF u = "PermissionError" THEN u ELSE "None"))]
    /\ pc' = [pc EXCEPT ![i] = AfterExit(ctx[i]).pc]
    /\ ctx' = [ctx EXCEPT ![i] = AfterExit(ctx[i]).ctx]
    /\ mon' = HistAdd(mon, "release", i, HeldTag(i))
    /\ UNCHANGED <<platform, sockvars, umask, wt, fd, desc, lk>>

----
\* exists_running, evaluated directly or by the loop of wait().

InWait(c) == c \in {"wait_T", "wait_None"}

\* No wait() is running.
WtIdle == [T |-> 0, I |-> 0, elapsed |-> 0]

\* exists_running returns val ("True" / "False") to its caller, which is the
\* loop of wait() when c is a wait context: wait() returns True on a False
\* and goes on to its timeout check on a True.  w is the timing of that
\* wait(), m the observer so far.
ProbeEnd(i, tr, c, val, e, w, m) ==
    LET tr1 == Append(tr, <<"return", val>>)
        back == InWait(c) /\ val = "True"
        done == InWait(c) /\ val = "False"
        m1 == Fault(HistAdd(RaceProbe(m, i), "exists_running", i, val), e)
    IN  /\ trace' = [trace EXCEPT ![i] =
                        Rec(i, IF done THEN Append(tr1, <<"wait_return", "True">>) ELSE tr1)]
        /\ pc' = [pc EXCEPT ![i] = IF back THEN "wait_check" ELSE "idle"]
        /\ ctx' = [ctx EXCEPT ![i] = IF back THEN c ELSE "none"]
        /\ wt' = [wt EXCEPT ![i] = IF back THEN w ELSE WtIdle]
        /\ mon' = IF done THEN WaitDone(m1, i, c, "True") ELSE m1

\* self.lockfile.exists().
LockfileAlways == TRUE

LockfileExists == path # 0

\* exists_running up to `self.is_locked or not self.lockfile.exists()`.
ProbeEnter(i, tr, c, w, m) ==
    LET tr1 == Append(tr, <<"exists_running", HeldTag(i)>>)
        tr2 == IF is_locked(i) THEN tr1
               ELSE Append(tr1, <<"exists", IF LockfileExists THEN "True" ELSE "False">>)
    IN  /\ IF is_locked(i) \/ ~LockfileExists
           THEN ProbeEnd(i, tr2, c, "False", "ok", w, m)
           ELSE /\ trace' = [trace EXCEPT ![i] = Rec(i, tr2)]
                /\ pc' = [pc EXCEPT ![i] = "p_open"]
                /\ ctx' = [ctx EXCEPT ![i] = c]
                /\ wt' = [wt EXCEPT ![i] = w]
                /\ mon' = RaceProbe(m, i)
        /\ UNCHANGED <<platform, sockvars, umask, path, pmode, fd, desc, lk>>

ProbeCall(i) ==
    /\ pc[i] = "idle"
    /\ SeqOk(i)
    /\ ProbeEnter(i, <<>>, "none", WtIdle, mon)

\* lockfile.open('r+'); any OSError makes the probe answer True.
ProbeOpen(i, e) ==
    /\ pc[i] = "p_open"
    /\ FaultOk(e)
    /\ LET r == OpenRW(e)
       IN  IF r = "ok"
           THEN /\ desc' = [desc EXCEPT ![i] = path]
                /\ trace' = [trace EXCEPT ![i] = Rec(i, Append(@, <<"open_rw", "ok">>))]
                /\ pc' = [pc EXCEPT ![i] = "p_lock"]
                /\ UNCHANGED <<ctx, wt, mon>>
           ELSE /\ ProbeEnd(i, Append(trace[i], <<"open_rw", r>>), ctx[i], "True", e,
                            wt[i], mon)
                /\ UNCHANGED desc
    /\ UNCHANGED <<platform, sockvars, umask, path, pmode, fd, lk>>

\* The file would stay open past the with block.
WithBlockLeaks(i) == desc[i]

\* Leaving `with self.lockfile.open('r+') as file:` closes the file, on a
\* normal exit and on an exception alike: the probe's description is gone.
WithBlockExit(i) == 0

\* The non-blocking lock attempt; an OSError leaves the with block (closing
\* the file) and makes the probe answer True.
ProbeLock(i, e) ==
    /\ pc[i] = "p_lock"
    /\ FaultOk(e)
    /\ LET r == ProbeLockCall(i, e)
       IN  IF r = "ok"
           THEN /\ lk' = [lk EXCEPT ![i] = TRUE]
                /\ trace' = [trace EXCEPT ![i] = Rec(i, Append(@, <<"probe_lock", "ok">>))]
                /\ pc' = [pc EXCEPT ![i] = "p_unlock"]
                /\ UNCHANGED <<desc, ctx, wt, mon>>
           ELSE /\ desc' = [desc EXCEPT ![i] = WithBlockExit(i)]
                /\ ProbeEnd(i, trace[i] \o << <<"probe_lock", r>>, <<"close_rw", "ok">> >>,
                            ctx[i], "True", e, wt[i], mon)
                /\ UNCHANGED lk
    /\ UNCHANGED <<platform, sockvars, umask, path, pmode, fd>>

\* The unlock that undoes the probe's own lock, and the close at the end of
\* the with block; the answer is False unless the unlock raised.
ProbeUnlock(i, e) ==
    /\ pc[i] = "p_unlock"
    /\ FaultOk(e)
    /\ LET r == ProbeUnlockCall(i, e)
       IN  ProbeEnd(i, trace[i] \o << <<"probe_unlock", r>>, <<"close_rw", "ok">> >>,
                    ctx[i], IF r = "ok" THEN "False" ELSE "True", e, wt[i], mon)
    /\ desc' = [desc EXCEPT ![i] = WithBlockExit(i)]
    /\ lk' = [lk EXCEPT ![i] = FALSE]
    /\ UNCHANGED <<platform, sockvars, umask, path, pmode, fd>>

----
\* wait(timeout, interval): the loop over exists_running.  Time is counted
\* in clock ticks from `start = time.monotonic()`.

\* The timeouts, intervals and sleep overruns a run draws from: all of them
\* when the timing of wait() is observed, one of each otherwise.
Timeouts == IF mon.mode = "wait" THEN 0..MaxT ELSE {1}

Intervals == IF mon.mode = "wait" THEN 1..MaxI ELSE {1}

Lags == IF mon.mode = "wait" THEN 0..MaxLag ELSE {0}

\* `timeout is not None and (time.monotonic() - start) >= timeout`.
TimedOutLate(i) == ctx[i] = "wait_T" /\ wt[i].elapsed > wt[i].T

TimedOut(i) == ctx[i] = "wait_T" /\ wt[i].elapsed >= wt[i].T

\* time.sleep(interval) in a wait() with timing w: at least the interval
\* passes, d more when the sleep overruns.  Without a timeout the clock is
\* never read again.
Slept(w, c, d) == IF c = "wait_T" THEN [w EXCEPT !.elapsed = @ + w.I + d] ELSE w

\* wait() is called and evaluates exists_running for the first time; c tells
\* whether a timeout was given ("wait_T", timeout T) or not ("wait_None").
WaitCall(i, c, T, I) ==
    /\ pc[i] = "idle"
    /\ i \in Observed
    /\ T \in Timeouts /\ I \in Intervals
    /\ SeqOk(i)
    /\ LET w == [T |-> IF c = "wait_T" THEN T ELSE 0, I |-> I, elapsed |-> 0]
       IN  ProbeEnter(i, << <<c, HeldTag(i)>> >>, c, w, WaitStart(mon, i, c, w))

\* The probe answered True and the timeout has elapsed: wait() returns False.
WaitTimeout(i) ==
    /\ pc[i] = "wait_check"
    /\ TimedOut(i)
    /\ trace' = [trace EXCEPT ![i] = Rec(i, Append(@, <<"wait_return", "False">>))]
    /\ pc' = [pc EXCEPT ![i] = "idle"]
    /\ ctx' = [ctx EXCEPT ![i] = "none"]
    /\ wt' = [wt EXCEPT ![i] = WtIdle]
    /\ mon' = WaitDone(mon, i, ctx[i], "False")
    /\ UNCHANGED <<platform, sockvars, umask, path, pmode, fd, desc, lk>>

\* The probe answered True and the timeout has not elapsed: sleep(interval),
\* then evaluate exists_running again.  The trace keeps the last evaluation.
WaitPoll(i, d) ==
    /\ pc[i] = "wait_check"
    /\ ~TimedOut(i)
    /\ d \in Lags
    /\ SeqOk(i)
    /\ LET w == Slept(wt[i], ctx[i], d)
       IN  ProbeEnter(i, << <<ctx[i], HeldTag(i)>>, <<"sleep", "interval">> >>, ctx[i],
                      w, WaitEval(mon, i, ctx[i], w))

----
\* The process of instance i terminates without release(): the kernel closes
\* its descriptors, which drops its advisory lock; the lock file stays.
Crash(i) ==
    /\ pc[i] # "dead"
    /\ SeqOk(i)
    /\ Cardinality({j \in Inst : pc[j] = "dead"}) < MaxCrash
    /\ pc' = [pc EXCEPT ![i] = "dead"]
    /\ fd' = [fd EXCEPT ![i] = 0]
    /\ desc' = [desc EXCEPT ![i] = 0]
    /\ lk' = [lk EXCEPT ![i] = FALSE]
    /\ ctx' = [ctx EXCEPT ![i] = "none"]
    /\ trace' = [trace EXCEPT ![i] = <<>>]
    /\ wt' = [wt EXCEPT ![i] = WtIdle]
    /\ mon' = HistAdd(RaceSpoil(mon), "crash", i, "free")
    /\ UNCHANGED <<platform, sockvars, umask, path, pmode>>

----
\* The configuration of the SocketClient: its name, the optional override
\* of its address, the environment, and the address resolved from them.
\* A str is a sequence of one-character strings.

\* Python's None where a str is optional; no str is this sequence.
None == <<"None">>

\* What socket_path answers when it raises instead of returning.
SocketPathError == <<"SocketPathError">>

BSlash == "\\"

\* r'\\.\pipe', the pipe namespace.
PipeNs == <<BSlash, BSlash, ".", BSlash, "p", "i", "p", "e">>

\* The names a client is constructed with.
Names == {<<"n">>, <<>>}

\* The overrides a client is constructed with: none, blank ones, a POSIX
\* path, and pipe addresses in and out of canonical form.
Overrides ==
    {None, <<>>, <<" ">>, <<"/", "o">>,
     PipeNs \o <<BSlash, "x">>,
     PipeNs \o <<BSlash, "X">>,
     PipeNs \o <<BSlash, "x", BSlash>>,
     <<"x">>}

\* for var in ('XDG_RUNTIME_DIR', 'HOME', 'TMPDIR')
EnvOrderHomeFirst == <<"HOME", "XDG_RUNTIME_DIR", "TMPDIR">>

EnvOrder == <<"XDG_RUNTIME_DIR", "HOME", "TMPDIR">>

EnvVars == {"XDG_RUNTIME_DIR", "HOME", "TMPDIR"}

\* What os.getenv may answer for each variable: unset, empty, a directory
\* (one ends with a separator, one is relative).
EnvValues(var) ==
    {None, <<>>,
     CASE var = "XDG_RUNTIME_DIR" -> <<"/", "r", "/">>
       [] var = "HOME" -> <<"/", "h">>
       [] OTHER -> <<"t">>}

Envs == {en \in [EnvVars -> UNION {EnvValues(v) : v \in EnvVars}] :
            \A v \in EnvVars : en[v] \in EnvValues(v)}

StartsWith(s, p) == Len(s) >= Len(p) /\ SubSeq(s, 1, Len(p)) = p

\* str.lower(), on the letters the overrides hold.
SameChar(c) == c

LowerChar(c) == IF c = "X" THEN "x" ELSE c

Lower(s) == [k \in 1..Len(s) |-> LowerChar(s[k])]

\* value.rstrip('\\')
RECURSIVE RStrip(_, _)
RStrip(s, c) ==
    IF s # <<>> /\ s[Len(s)] = c THEN RStrip(SubSeq(s, 1, Len(s) - 1), c) ELSE s

\* value.strip(): white space is all a blank value holds.
Strip(s) == IF \A k \in 1..Len(s) : s[k] = " " THEN <<>> ELSE s

\* The components of a path: what stands between separators, the empty
\* ones and '.' dropped, as pathlib parses it.
RECURSIVE PathParts(_, _)
PathParts(s, cur) ==
    LET done == IF cur = <<>> \/ cur = <<".">> THEN <<>> ELSE <<cur>>
    IN  IF s = <<>> THEN done
        ELSE IF Head(s) = "/" THEN done \o PathParts(Tail(s), <<>>)
        ELSE PathParts(Tail(s), Append(cur, Head(s)))

\* The root pathlib keeps of a POSIX path: '/', '//' for exactly two
\* leading separators, or none.
PathRoot(s) ==
    IF ~StartsWith(s, <<"/">>) THEN <<>>
    ELSE IF StartsWith(s, <<"/", "/">>) /\ ~StartsWith(s, <<"/", "/", "/">>)
    THEN <<"/", "/">>
    ELSE <<"/">>

RECURSIVE JoinParts(_)
JoinParts(ps) ==
    IF ps = <<>> THEN <<>>
    ELSE IF Len(ps) = 1 THEN ps[1]
    ELSE ps[1] \o <<"/">> \o JoinParts(Tail(ps))

\* str(Path(base_dir) / child) for a child that is not absolute.
PathJoin(base, child) ==
    LET s == base \o <<"/">> \o child
        r == PathRoot(base)
        ps == PathParts(s, <<>>)
    IN  IF r = <<>> /\ ps = <<>> THEN <<".">> ELSE r \o JoinParts(ps)

\* The first variable of EnvOrder from position k on whose value is neither
\* unset nor empty, 0 when there is none.
RECURSIVE FirstSet(_, _)
FirstSet(en, k) ==
    IF k > Len(EnvOrder) THEN 0
    ELSE IF en[EnvOrder[k]] # None /\ en[EnvOrder[k]] # <<>> THEN k
    ELSE FirstSet(en, k + 1)

\* SocketClient.socket_path of a client configured as c.
socket_path(c) ==
    IF c.default_path # None /\ c.default_path # <<>> THEN c.default_path
    ELSE IF windows_check THEN PipeNs \o <<BSlash>> \o c.name
    ELSE IF FirstSet(c.env, 1) # 0
    THEN PathJoin(c.env[EnvOrder[FirstSet(c.env, 1)]], <<".">> \o c.name)
    ELSE SocketPathError

resolvable == socket_path(conf) # SocketPathError

\* validate_default_path: "ok", or the exception construction raises.
validate_default_path(value, isdir) ==
    IF value = None THEN "ok"
    ELSE IF Strip(value) = <<>> THEN "SocketValidateError"
    ELSE IF windows_check
    THEN LET normalized == Lower(RStrip(value, BSlash))
         IN  IF normalized # value \/ ~StartsWith(normalized, PipeNs)
             THEN "SocketValidateError"
             ELSE "ok"
    ELSE IF isdir THEN "SocketValidateError"
    ELSE "ok"

\* A client not constructed yet, and one constructed with no override in an
\* environment en.
Unbuilt(nm, ov, isdir, en) ==
    [name |-> nm, default_path |-> ov, isdir |-> isdir, env |-> en,
     built |-> "none", cached |-> None]

Built(nm, en) == [Unbuilt(nm, None, FALSE, en) EXCEPT !.built = "ok"]

HomeOnly == [v \in EnvVars |-> IF v = "HOME" THEN <<"/", "h">> ELSE None]

NoEnv == [v \in EnvVars |-> None]

constructed == conf.built = "ok"

\* SocketClient(name, default_path): attrs assigns the fields and runs the
\* validator of default_path; nothing else runs at construction.
Construct ==
    /\ conf.built = "none"
    /\ conf' = [conf EXCEPT !.built = validate_default_path(conf.default_path, conf.isdir)]
    /\ strace' = << <<"construct", conf'.built>> >>
    /\ UNCHANGED <<platform, lockvars, pipe, transports, sctx, wire>>

\* self.socket_path, a cached_property: computed at the first access that
\* does not raise, kept from then on.
Resolved == IF conf.cached # None THEN conf.cached ELSE socket_path(conf)

Cache == IF resolvable THEN [conf EXCEPT !.cached = Resolved] ELSE conf

----
\* SocketClient: connect(), disconnect(), send() and the with-forms.  Each
\* operation makes at most one OS call, so each is one action.

\* Longest line, in characters, a run passes to send().
MaxLine == 2

\* Characters of the lines, as code points: one for each length of UTF-8
\* sequence and a lone surrogate, which a Python str may hold.
Chars == {65, 233, 8364, 128512, 55296}

Lines == UNION {[1..n -> Chars] : n \in 0..MaxLine}

\* The lines of a run that looks at the resources, not at the bytes.
PlainLines == {<<>>, <<65>>}

IsSurrogate(c) == c >= 55296 /\ c <= 57343

\* The UTF-8 sequence of one code point.
RawChar(c) == <<c>>

Utf8Char(c) ==
    IF c < 128 THEN <<c>>
    ELSE IF c < 2048 THEN <<192 + (c \div 64), 128 + (c % 64)>>
    ELSE IF c < 65536
    THEN <<224 + (c \div 4096), 128 + ((c \div 64) % 64), 128 + (c % 64)>>
    ELSE <<240 + (c \div 262144), 128 + ((c \div 4096) % 64),
           128 + ((c \div 64) % 64), 128 + (c % 64)>>

RECURSIVE Utf8(_)
Utf8(line) == IF line = <<>> THEN <<>> ELSE Utf8Char(Head(line)) \o Utf8(Tail(line))

\* line.encode('utf-8') raises UnicodeEncodeError on a surrogate.
Encodable(line) == \A k \in 1..Len(line) : ~IsSurrogate(line[k])

is_connect == pipe # 0

ConnTag == IF is_connect THEN "connected" ELSE "disconnected"

\* What opening the transport may answer.
ConnectOutcomes ==
    {"ok", "FileNotFoundError", "ConnectionRefusedError", "PermissionError", "OSError"}

\* except (FileNotFoundError, ConnectionRefusedError).
AbsorbedNone == {}

Absorbed == {"FileNotFoundError", "ConnectionRefusedError"}

\* What pipe.close() and pipe.send / pipe.write may answer.
IoOutcomes == {"ok", "OSError"}

\* The socket field of the guard connect() returns: ConnectSocket(socket=self).
ConnectGuard == "guard(self)"

FreshTransport == CHOOSE t \in 1..(Cardinality(transports) + 1) : t \notin transports

\* Where the caller continues once connect() has returned its guard.
AfterConnect(kind) == IF kind = "connect" THEN "none" ELSE "with"

WireIdle == [line |-> <<>>, payload |-> <<>>, got |-> <<>>, writes |-> 0]

\* `if not self.is_connect:` a connected client skips the whole attempt.
ConnectAlways == FALSE

ConnectSkips == is_connect

\* The attempts connect() makes to open the transport when the OS answers
\* e: one open / socket connect in the try block, no loop around it.
OpensRetried(e) ==
    IF e = "ok" THEN << <<"open", e>> >> ELSE << <<"open", e>>, <<"open", e>> >>

Opens(e) == << <<"open", e>> >>

\* connect(), called plainly ("connect"), by `with client.connect():`
\* ("with_guard") or by `with client:` ("with_self"); e is the answer of the
\* open / socket connect.
Connect(kind, e) ==
    /\ constructed
    /\ sctx = "none"
    /\ LET tr0 == << <<kind, ConnTag>> >>
           ret == << <<"return", ConnectGuard>> >>
       IN  IF ConnectSkips
           THEN /\ e = "ok"
                /\ strace' = tr0 \o ret
                /\ sctx' = AfterConnect(kind)
                /\ UNCHANGED <<pipe, transports>>
           ELSE IF ~resolvable
           THEN /\ e = "ok"
                /\ strace' = tr0 \o << <<"socket_path", "SocketPathError">>,
                                       <<"raise", "SocketPathError">> >>
                /\ UNCHANGED <<pipe, transports, sctx>>
           ELSE IF e = "ok"
           THEN /\ pipe' = FreshTransport
                /\ transports' = transports \cup {FreshTransport}
                /\ strace' = tr0 \o Opens("ok") \o ret
                /\ sctx' = AfterConnect(kind)
           ELSE IF e \in Absorbed
           THEN /\ pipe' = 0
                /\ strace' = tr0 \o Opens(e) \o << <<"log", "Socket connection failed">> >>
                                 \o ret
                /\ sctx' = AfterConnect(kind)
                /\ UNCHANGED transports
           ELSE /\ strace' = tr0 \o Opens(e) \o << <<"raise", e>> >>
                /\ UNCHANGED <<pipe, transports, sctx>>
    /\ conf' = IF ConnectSkips THEN conf ELSE Cache
    /\ wire' = WireIdle
    /\ UNCHANGED <<platform, lockvars>>

ConnectCall(e) == Connect("connect", e)

WithConnectEnter(e) == Connect("with_guard", e)

WithClientEnter(e) == Connect("with_self", e)

\* What pipe.close() leaves when it raised: the client keeps _pipe.
AfterCloseFailure == pipe

\* disconnect(); tr is the trace of the caller so far, e the answer of
\* pipe.close(), closed whether a close that raised still closed the transport.
DisconnectBody(tr, e, closed) ==
    LET tr1 == Append(tr, <<"disconnect", ConnTag>>)
        ret == << <<"return", "None">> >>
    IN  IF ~is_connect
        THEN /\ e = "ok" /\ closed
             /\ strace' = tr1 \o ret
             /\ UNCHANGED <<pipe, transports>>
        ELSE IF e = "ok"
        THEN /\ closed
             /\ pipe' = 0
             /\ transports' = transports \ {pipe}
             /\ strace' = tr1 \o << <<"close", "ok">> >> \o ret
        ELSE /\ pipe' = AfterCloseFailure
             /\ transports' = IF closed THEN transports \ {pipe} ELSE transports
             /\ strace' = tr1 \o << <<"close", e>>, <<"log", "Socket close failed">> >> \o ret

Disconnect(e, closed) ==
    /\ constructed
    /\ sctx = "none"
    /\ DisconnectBody(<<>>, e, closed)
    /\ wire' = WireIdle
    /\ UNCHANGED <<platform, lockvars, conf, sctx>>

\* The body of a with-form ends, normally or by an exception, and __exit__
\* calls disconnect(); the exception of the body is not suppressed.
WithExit(x, e, closed) ==
    /\ constructed
    /\ sctx = "with"
    /\ DisconnectBody(<< <<"body", x>> >>, e, closed)
    /\ sctx' = "none"
    /\ wire' = WireIdle
    /\ UNCHANGED <<platform, lockvars, conf>>

\* The numbers of bytes one pipe.send / pipe.write may accept of data: all of
\* them, or, on a transport that takes less than it is offered, at least one.
WriteCounts(data, short) ==
    IF ~short \/ data = <<>> THEN {Len(data)} ELSE 1..Len(data)

\* The bytes that reach the transport when the one write of send() accepts
\* n of them: the return value of the write is dropped, nothing is written
\* again.
Written(data, n) == n

\* `except Exception:` around the encode and the write of send() takes every
\* exception either of them raises.
SendSwallowsNone == {}

SendSwallows == {"UnicodeEncodeError", "OSError", "ValueError"}

\* How send() ends once the encode or the write raised x.
SendFailed(x) ==
    IF x \in SendSwallows
    THEN << <<"log", "Failed to send data over socket">>, <<"return", "None">> >>
    ELSE << <<"raise", x>> >>

\* send(line); e is the answer of the write, n the number of bytes it accepts.
Send(line, e, n, short) ==
    /\ constructed
    /\ LET tr0 == << <<"send", ConnTag>> >>
           ret == << <<"return", "None">> >>
           data == Utf8(line)
           r == IF pipe \notin transports THEN "ValueError" ELSE e
       IN  IF ~is_connect
           THEN /\ e = "ok" /\ n = 0
                /\ strace' = tr0 \o ret
                /\ wire' = [WireIdle EXCEPT !.line = line]
           ELSE IF ~Encodable(line)
           THEN /\ e = "ok" /\ n = 0
                /\ strace' = tr0 \o << <<"encode", "UnicodeEncodeError">> >>
                                 \o SendFailed("UnicodeEncodeError")
                /\ wire' = [WireIdle EXCEPT !.line = line]
           ELSE IF r = "ok"
           THEN /\ n \in WriteCounts(data, short)
                /\ strace' = tr0 \o << <<"encode", "ok">>, <<"write", "ok">> >> \o ret
                /\ wire' = [line |-> line, payload |-> data,
                            got |-> SubSeq(data, 1, Written(data, n)), writes |-> 1]
           ELSE /\ n = 0
                /\ strace' = tr0 \o << <<"encode", "ok">>, <<"write", r>> >> \o SendFailed(r)
                /\ wire' = [line |-> line, payload |-> data, got |-> <<>>, writes |-> 1]
    /\ UNCHANGED <<platform, lockvars, conf, pipe, transports, sctx>>

\* The client after construction; whether its address can be resolved is
\* up to the environment.
SocketInit ==
    /\ pipe = 0
    /\ transports = {}
    /\ sctx = "none"
    /\ strace = <<>>
    /\ wire = WireIdle

\* One step of the client; short tells whether the transport may accept
\* fewer bytes than a write offers, lines which lines the caller sends.
SocketStep(short, lines) ==
    \/ \E e \in ConnectOutcomes : ConnectCall(e)
    \/ \E e \in ConnectOutcomes : WithConnectEnter(e)
    \/ \E e \in ConnectOutcomes : WithClientEnter(e)
    \/ \E e \in IoOutcomes, closed \in BOOLEAN : Disconnect(e, closed)
    \/ \E x \in {"normal", "BodyError"}, e \in IoOutcomes, closed \in BOOLEAN :
           WithExit(x, e, closed)
    \/ \E line \in lines, e \in IoOutcomes, n \in 0..(4 * MaxLine) : Send(line, e, n, short)

----
\* The state after construction of the LockClient instances, no lock file yet.
InitProgram ==
    /\ platform \in {"posix", "windows"}
    /\ path = 0
    /\ fd = [i \in Inst |-> 0]
    /\ desc = [i \in Inst |-> 0]
    /\ lk = [i \in Inst |-> FALSE]
    /\ pc = [i \in Inst |-> "idle"]
    /\ ctx = [i \in Inst |-> "none"]
    /\ trace = [i \in Inst |-> <<>>]
    /\ wt = [i \in Inst |-> WtIdle]
    /\ umask = 18
    /\ pmode = 0
    /\ conf = Built(<<"n">>, HomeOnly)
    /\ SocketInit

MonInit(mode) ==
    [mode |-> mode, faults |-> 0, live |-> FALSE, racers |-> {}, hist |-> <<>>,
     wobs |-> [who |-> 0, T |-> 0, I |-> 0, at |-> 0, prev |-> -1, n |-> 0, res |-> "none"]]

Init == InitProgram /\ mon = MonInit("plain")

InitRace == InitProgram /\ mon = MonInit("race")

InitSeq == InitProgram /\ mon = MonInit("seq")

InitWait == InitProgram /\ mon = MonInit("wait")

\* The processes with their LockClient idle and the SocketClient constructed.
InitSocket ==
    /\ platform \in {"posix", "windows"}
    /\ path = 0
    /\ fd = [i \in Inst |-> 0]
    /\ desc = [i \in Inst |-> 0]
    /\ lk = [i \in Inst |-> FALSE]
    /\ pc = [i \in Inst |-> "idle"]
    /\ ctx = [i \in Inst |-> "none"]
    /\ trace = [i \in Inst |-> <<>>]
    /\ wt = [i \in Inst |-> WtIdle]
    /\ umask = 18
    /\ pmode = 0
    /\ mon = MonInit("plain")
    /\ conf \in {Built(<<"n">>, HomeOnly), Built(<<"n">>, NoEnv)}
    /\ SocketInit

\* One step of process i in an environment whose OS calls answer from Env.
Step(i, Env) ==
    \/ \E e \in Env : AcquireCall(i, e)
    \/ \E e \in Env : WithGuardEnter(i, e)
    \/ \E e \in Env : WithSelfEnter(i, e)
    \/ \E e \in Env : AcquireLockStep(i, e)
    \/ ReleaseCall(i)
    \/ \E x \in {"normal", "BodyError"} : BodyExit(i, x)
    \/ \E e, f \in Env : ReleaseUnlock(i, e, f)
    \/ \E e \in Env, closed \in BOOLEAN : ReleaseClose(i, e, closed)
    \/ ReleaseUnlink(i)
    \/ ProbeCall(i)
    \/ \E e \in Env : ProbeOpen(i, e)
    \/ \E e \in Env : ProbeLock(i, e)
    \/ \E e \in Env : ProbeUnlock(i, e)
    \/ \E c \in {"wait_T", "wait_None"}, T \in 0..MaxT, I \in 1..MaxI : WaitCall(i, c, T, I)
    \/ WaitTimeout(i)
    \/ \E d \in 0..MaxLag : WaitPoll(i, d)
    \/ Crash(i)

\* Every OS call that acquire(), release() and exists_running guard may fail.
Next == \E i \in Inst : Step(i, AnyOutcome)

Spec == Init /\ [][Next]_vars

\* OS calls fail only for the reason their semantics gives.
NextNominal == \E i \in Inst : Step(i, NoFault)

SpecNominal == Init /\ [][NextNominal]_vars

\* The same, with the acquire race observed.
SpecRace == InitRace /\ [][NextNominal]_vars

\* The same, operations running one at a time, with their history.
SpecSeq == InitSeq /\ [][NextNominal]_vars

\* The same, with the timing of wait() observed.
SpecWait == InitWait /\ [][NextNominal]_vars

\* The timing of wait() observed while one other process acquires,
\* releases, probes or terminates.
NextWaitPair == \E i \in {1, 2} : Step(i, NoFault)

\* The steps of a wait() of process i that is running: the thread calling
\* wait() is scheduled until wait() returns.
WaitRuns(i) ==
    /\ InWait(ctx[i])
    /\ \/ \E e \in NoFault : ProbeOpen(i, e)
       \/ \E e \in NoFault : ProbeLock(i, e)
       \/ \E e \in NoFault : ProbeUnlock(i, e)
       \/ WaitTimeout(i)
       \/ \E d \in 0..MaxLag : WaitPoll(i, d)

SpecWaitPair == InitWait /\ [][NextWaitPair]_vars /\ \A i \in {1, 2} : WF_vars(WaitRuns(i))

\* Two processes, with-forms nesting once.
NextNest ==
    \/ \E i \in {1, 2} : Step(i, NoFault)
    \/ \E i \in {1, 2}, kind \in {"with_guard", "with_self"}, e \in NoFault : WithNested(i, kind, e)

SpecNest == Init /\ [][NextNest]_vars

\* Two processes whose OS calls may fail with any errno, the one of a
\* filesystem without locking included.
NextClassify == \E i \in {1, 2} : Step(i, EveryOutcome)

SpecClassify == Init /\ [][NextClassify]_vars

\* The LockClient under either umask, OS calls failing only for the reason
\* their semantics gives.
InitMode ==
    /\ platform \in {"posix", "windows"}
    /\ path = 0
    /\ fd = [i \in Inst |-> 0]
    /\ desc = [i \in Inst |-> 0]
    /\ lk = [i \in Inst |-> FALSE]
    /\ pc = [i \in Inst |-> "idle"]
    /\ ctx = [i \in Inst |-> "none"]
    /\ trace = [i \in Inst |-> <<>>]
    /\ wt = [i \in Inst |-> WtIdle]
    /\ umask \in Umasks
    /\ pmode = 0
    /\ mon = MonInit("plain")
    /\ conf = Built(<<"n">>, HomeOnly)
    /\ SocketInit

SpecMode == InitMode /\ [][NextNominal]_vars

\* The SocketClient on a transport whose open, close and write may fail and
\* whose write may accept fewer bytes than offered.
NextSocket == SocketStep(TRUE, Lines)

SpecSocket == InitSocket /\ [][NextSocket]_vars

\* The SocketClient on a transport whose write accepts all it is offered.
NextSocketFull == SocketStep(FALSE, Lines)

SpecSocketFull == InitSocket /\ [][NextSocketFull]_vars

\* One process that uses both its LockClient and its SocketClient, every OS
\* call of either free to fail.
NextProcess == Step(1, AnyOutcome) \/ SocketStep(TRUE, PlainLines)

SpecProcess == InitSocket /\ [][NextProcess]_vars

\* The SocketClient from before its construction, over the names, overrides
\* and environments it may be constructed with.
InitConfig ==
    /\ platform \in {"posix", "windows"}
    /\ path = 0
    /\ fd = [i \in Inst |-> 0]
    /\ desc = [i \in Inst |-> 0]
    /\ lk = [i \in Inst |-> FALSE]
    /\ pc = [i \in Inst |-> "idle"]
    /\ ctx = [i \in Inst |-> "none"]
    /\ trace = [i \in Inst |-> <<>>]
    /\ wt = [i \in Inst |-> WtIdle]
    /\ umask = 18
    /\ pmode = 0
    /\ mon = MonInit("plain")
    /\ \E nm \in Names, ov \in Overrides, isdir \in BOOLEAN, en \in Envs :
           /\ isdir => ov # None
           /\ conf = Unbuilt(nm, ov, isdir, en)
    /\ SocketInit

NextConfig == Construct \/ SocketStep(FALSE, PlainLines)

SpecConfig == InitConfig /\ [][NextConfig]_vars

----
\* Instances that report is_locked.
Holders == {i \in Inst : is_locked(i)}

\* C1 (exclusivity): in every reachable state, OS calls guarded by try/except
\* being allowed to fail, at most one instance has is_locked = true.
C1_Exclusive == Cardinality(Holders) <= 1

\* The observed race is over: at least two processes called acquire()
\* concurrently, starting with no lock file and no holder, all have returned,
\* and nobody has released or terminated since.
RaceOver ==
    /\ mon.mode = "race"
    /\ mon.live
    /\ Cardinality(mon.racers) >= 2
    /\ \A j \in mon.racers : pc[j] # "acq_lock"

\* C2 (exactly one winner): when a race is over, exactly one of the racers
\* has is_locked = true.
C2_ExactlyOneWinner ==
    RaceOver => Cardinality({j \in mon.racers : is_locked(j)}) = 1

\* The hand-over scenario and the is_locked of the caller after each step.
HandOverCalls == << <<"acquire", 1>>, <<"acquire", 2>>, <<"release", 1>>, <<"acquire", 2>> >>

HandOverHeld == <<"held", "free", "free", "held">>

\* The first k operations of the sequential run are the first k of the scenario.
HandOverPrefix(k) ==
    /\ mon.mode = "seq"
    /\ k <= Len(mon.hist)
    /\ \A m \in 1..k : <<mon.hist[m][1], mon.hist[m][2]>> = HandOverCalls[m]

\* C3 (hand-over): starting with no lock file, L1.acquire(); L2.acquire();
\* L1.release(); L2.acquire() leave the caller's is_locked true, false, false
\* and true, step by step.
C3_HandOver ==
    \A k \in 1..Len(HandOverCalls) : HandOverPrefix(k) => mon.hist[k][3] = HandOverHeld[k]

C3_Witness == HandOverPrefix(4) /\ mon.hist[4][3] = "held" /\ is_locked(2) /\ ~is_locked(1)

\* release() of observed process i, called while it held the lock, returns
\* normally in this step.
HeldReleaseReturns(i) ==
    /\ pc[i] = "rel_unlink"
    /\ pc'[i] = "idle"
    /\ Has(trace'[i], <<"release", "held">>)
    /\ Has(trace'[i], <<"return", "None">>)

HeldReleaseEnded(i) ==
    /\ pc[i] = "idle"
    /\ Has(trace[i], <<"release", "held">>)

\* An unlock, permission-restore or close step of that release() raised into
\* the except branch, which logs it.
ReleaseStepRaised(i) == Has(trace[i], <<"log", "Lock release failed">>)

\* C5 (failed release keeps the held state): if a step of release() raised,
\* release() does not raise to the caller and the instance still reports
\* is_locked; is_locked is false only when unlock and close both succeeded.
C5_FailedReleaseKeepsHeld ==
    \A i \in Observed :
        HeldReleaseEnded(i) =>
            /\ ReleaseStepRaised(i) => (Count(trace[i], "raise") = 0 /\ is_locked(i))
            /\ ~is_locked(i) =>
                   (Has(trace[i], <<"unlock", "ok">>) /\ Has(trace[i], <<"close", "ok">>))


AcquireKinds == {"acquire", "with_guard", "with_self"}

\* Observed process i calls acquire() (plainly or through a with-form) while
\* it reports is_locked.
AcquireWhileHeld(i) ==
    /\ pc[i] = "idle"
    /\ is_locked(i)
    /\ pc'[i] # "dead"
    /\ trace'[i] # trace[i]
    /\ trace'[i] # <<>>
    /\ trace'[i][1][1] \in AcquireKinds

\* C6 (acquire idempotence): acquire() on an instance with is_locked true makes
\* no open and no lock call, leaves the descriptor, the lock file and the OS
\* lock unchanged, raises nothing and returns a guard bound to that instance.
C6_AcquireIdempotent ==
    [][\A i \in Observed :
          AcquireWhileHeld(i) =>
              /\ trace'[i] = << trace'[i][1], <<"return", "guard(self)">> >>
              /\ fd' = fd /\ desc' = desc /\ lk' = lk /\ path' = path]_vars

C6_Witness ==
    /\ is_locked(1) /\ lk[1]
    /\ trace[1] = << <<"acquire", "held">>, <<"return", "guard(self)">> >>

\* Observed process i's acquire() has ended (the caller is back in control or
\* in the body of its with-form) after its open or its lock step failed.
AcquireFailed(i) ==
    /\ pc[i] \in {"idle", "body"}
    /\ trace[i] # <<>>
    /\ trace[i][1][1] \in AcquireKinds
    /\ Count(trace[i], "release") = 0
    /\ \/ Count(trace[i], "open") = 1 /\ ~Has(trace[i], <<"open", "ok">>)
       \/ Count(trace[i], "lock") = 1 /\ ~Has(trace[i], <<"lock", "ok">>)

WithEnded(i) ==
    /\ pc[i] = "idle"
    /\ trace[i] # <<>>
    /\ trace[i][1][1] \in {"with_guard", "with_self"}
    /\ Count(trace[i], "exit") = 1

\* C8 (guaranteed release on every exit path): leaving the body of a with-form
\* normally or by an exception calls release() exactly once; the exception
\* still propagates; after a successful acquire there is exactly one open, one
\* lock, one unlock and one close, and is_locked ends false.
C8_GuaranteedRelease ==
    \A i \in Observed :
        WithEnded(i) =>
            /\ Count(trace[i], "release") = 1
            /\ Has(trace[i], <<"body", "BodyError">>) => Has(trace[i], <<"exit", "BodyError">>)
            /\ Has(trace[i], <<"body", "normal">>) => Has(trace[i], <<"exit", "normal">>)
            /\ Has(trace[i], <<"lock", "ok">>) =>
                   /\ Count(trace[i], "open") = 1
                   /\ Count(trace[i], "lock") = 1
                   /\ Count(trace[i], "unlock") = 1
                   /\ Count(trace[i], "close") = 1
                   /\ ~is_locked(i)


\* Instance h is between the return of its successful acquire() and the unlock
\* step of its release(): it may be idle, in the body of a with-form, or in
\* the fixed delay that starts release().
HeldWindow(h) ==
    /\ is_locked(h)
    /\ lk[h]
    /\ pc[h] \in {"idle", "body", "rel_sleep"}

\* exists_running of observed process p returns val in this step.
ProbeReturns(p, val) ==
    /\ pc[p] \in {"idle", "p_open", "p_lock", "p_unlock", "wait_check"}
    /\ trace'[p] # trace[p]
    /\ Has(trace'[p], <<"exists_running", "free">>)
    /\ Has(trace'[p], <<"return", val>>)

\* C9 (probe sees a live holder): from the return of a successful acquire() in
\* one instance until the unlock step of its release(), the fixed delay
\* included, every exists_running of a different instance returns true.
C9_ProbeSeesHolder ==
    [][\A p \in Observed : \A h \in Inst \ {p} :
          (HeldWindow(h) /\ HeldWindow(h)') => ~ProbeReturns(p, "False")]_vars

C9_Witness ==
    /\ HeldWindow(2) /\ pc[2] = "rel_sleep"
    /\ platform = "windows"
    /\ pc[1] = "idle"
    /\ trace[1] = << <<"exists_running", "free">>, <<"exists", "True">>, <<"open_rw", "ok">>,
                     <<"probe_lock", "EACCES">>, <<"close_rw", "ok">>, <<"return", "True">> >>

\* exists_running of observed process p, evaluated on its own (not by wait()),
\* returns in this step.
ProbeReturnStep(p) ==
    /\ pc[p] \in {"idle", "p_open", "p_lock", "p_unlock"}
    /\ pc'[p] = "idle"
    /\ trace'[p] # trace[p]
    /\ trace'[p] # <<>>
    /\ trace'[p][1] = <<"exists_running", "free">>
    /\ trace'[p][Len(trace'[p])][1] = "return"

\* No instance holds the lock while p probes: operations run one at a time,
\* p is not a holder and no other process has an OS lock on the file.
NobodyHolds(p) ==
    /\ mon.mode = "seq"
    /\ ~is_locked(p)
    /\ \A j \in Inst \ {p} : ~lk[j] /\ ~is_locked(j)

\* C10 (probe reports 'not running' when nobody holds the lock): the probe
\* returns false when the lock file does not exist, and also when the file
\* exists but no process holds the OS lock on it (orphaned file); in the
\* second case the probe's own lock attempt succeeds and is undone.
C10_ProbeNotRunning ==
    [][\A p \in Observed :
          (NobodyHolds(p) /\ ProbeReturnStep(p)) =>
              /\ Has(trace'[p], <<"return", "False">>)
              /\ Has(trace'[p], <<"exists", "True">>) =>
                     /\ Has(trace'[p], <<"probe_lock", "ok">>)
                     /\ Has(trace'[p], <<"probe_unlock", "ok">>)
                     /\ ~lk'[p] /\ desc'[p] = 0]_vars

\* Entries a < r of the history are the successful acquire() of an instance and
\* the release() of that holder that returned with the instance not held.
ReleasedAt(a, r) ==
    /\ mon.mode = "seq"
    /\ a < r /\ r <= Len(mon.hist)
    /\ mon.hist[a][1] = "acquire" /\ mon.hist[a][3] = "held"
    /\ mon.hist[r] = <<"release", mon.hist[a][2], "free">>
    /\ \A k \in (a + 1)..(r - 1) : mon.hist[k][2] # mon.hist[a][2]

\* Every operation after entry r up to entry m is an exists_running (on its
\* own or by wait()): no instance has called acquire() since.
OnlyProbesSince(r, m) ==
    \A k \in (r + 1)..m : mon.hist[k][1] = "exists_running"

\* C11 (probe accuracy after release): once a holder's release() has returned
\* successfully, every exists_running evaluated by any instance returns false
\* until some instance next acquires the lock.
C11_ProbeAfterRelease ==
    \A a, r, m \in 1..MaxHist :
        (ReleasedAt(a, r) /\ r < m /\ m <= Len(mon.hist) /\ OnlyProbesSince(r, m))
            => mon.hist[m][3] = "False"

C11_Witness ==
    /\ ReleasedAt(1, 2)
    /\ Len(mon.hist) = 4
    /\ OnlyProbesSince(2, 4)
    /\ mon.hist[3][2] # mon.hist[4][2]
    /\ mon.hist[4][3] = "False"

\* Observed process p, which holds the lock (descriptor and OS lock), evaluates
\* exists_running itself in this step.
OwnProbe(p) ==
    /\ pc[p] = "idle"
    /\ is_locked(p) /\ lk[p]
    /\ trace'[p] # trace[p]
    /\ Has(trace'[p], <<"exists_running", "held">>)

\* C12 (probe is independent of the caller's own state): exists_running gives
\* the same value whether or not the caller itself has is_locked; in
\* particular it reports the lock as running when it is held, even if the
\* holder is the caller.
C12_ProbeIndependent ==
    [][\A p \in Observed : OwnProbe(p) => Has(trace'[p], <<"return", "True">>)]_vars

\* wait(timeout=T, interval=I) of observed process i has returned.
WaitEnded(i) ==
    /\ pc[i] = "idle"
    /\ trace[i] # <<>>
    /\ trace[i][1][1] = "wait_T"
    /\ Count(trace[i], "wait_return") = 1

\* The evaluation of exists_running that ended the last timed wait() with
\* True started within the period T.
FreeInTime == mon.wobs.res = "True" => mon.wobs.at <= mon.wobs.T

\* C13 (wait semantics): wait(timeout=T, interval=I) evaluates exists_running
\* at least once; it returns true at the first evaluation that yields false,
\* without sleeping again; it returns false if every evaluation made during the
\* whole period T yields true; between two evaluations it sleeps I.
C13_WaitSemantics ==
    /\ \A i \in Observed :
          WaitEnded(i) =>
              /\ Count(trace[i], "exists_running") >= 1
              /\ Has(trace[i], <<"return", "False">>) =>
                     /\ trace[i][Len(trace[i])] = <<"wait_return", "True">>
                     /\ trace[i][Len(trace[i]) - 1] = <<"return", "False">>
                     /\ Pos(trace[i], "sleep") < Pos(trace[i], "exists_running")
              /\ Has(trace[i], <<"wait_return", "True">>) => Has(trace[i], <<"return", "False">>)
    /\ FreeInTime
    /\ mon.wobs.prev >= 0 => mon.wobs.at - mon.wobs.prev >= mon.wobs.I

\* C14 (wait reports 'free in time' only): if wait(timeout=T, interval=I)
\* returns true, the evaluation that yielded false happened at an elapsed time
\* not greater than T; a false observation made after T has elapsed yields a
\* false result.
C14_FreeInTimeOnly ==
    (mon.wobs.res # "running" /\ mon.wobs.at > mon.wobs.T) => mon.wobs.res # "True"

----
\* The SocketClient.

ConfigurationErrors == {"SocketPathError", "SocketValidateError"}

\* The exceptions the last operation of the client let reach its caller.
SocketRaised == {strace[k][2] : k \in {j \in 1..Len(strace) : strace[j][1] = "raise"}}

\* An OS call of the last operation of the client failed.
SocketCallFailed ==
    \E k \in 1..Len(strace) : strace[k][1] \in {"open", "close", "write"} /\ strace[k][2] # "ok"

\* C15 (propagation policy): whatever OS call of an operation of LockClient or
\* SocketClient fails, the operation returns normally in the 'not held' /
\* 'not connected' state; only SocketPathError and SocketValidateError reach
\* the caller.
C15_PropagationPolicy ==
    /\ SocketRaised \subseteq ConfigurationErrors
    /\ (SocketCallFailed /\ ~Has(strace, <<"write", "OSError">>)) => ~is_connect
    /\ \A i \in Observed : Count(trace[i], "raise") = 0

\* The last operation of the client was a connect() (plain or through a
\* with-form) whose open found the endpoint missing or was refused.
ConnectRefused ==
    /\ strace # <<>>
    /\ strace[1] \in {<<"connect", "disconnected">>, <<"with_guard", "disconnected">>,
                      <<"with_self", "disconnected">>}
    /\ \/ Has(strace, <<"open", "FileNotFoundError">>)
       \/ Has(strace, <<"open", "ConnectionRefusedError">>)

\* C16 (connect failure is absorbed): when the endpoint is missing or the
\* connection is refused, connect() does not raise, leaves is_connect false
\* and returns a guard bound to the same client, whose exit is a no-op.
C16_ConnectAbsorbed ==
    [][/\ ConnectRefused' =>
              /\ strace'[Len(strace')] = <<"return", "guard(self)">>
              /\ Count(strace', "raise") = 0
              /\ ~is_connect'
       /\ (ConnectRefused /\ strace' # <<>> /\ strace'[1][1] \in {"body", "disconnect"}) =>
              /\ Count(strace', "close") = 0
              /\ strace'[Len(strace')] = <<"return", "None">>
              /\ pipe' = pipe /\ transports' = transports]_vars

C16_Witness ==
    /\ strace = << <<"body", "normal">>, <<"disconnect", "disconnected">>, <<"return", "None">> >>
    /\ ~is_connect
    /\ transports = {}

ConnectKinds == {"connect", "with_guard", "with_self"}

\* connect() is called on a connected client in this step.
ConnectWhileConnected ==
    /\ is_connect
    /\ sctx = "none"
    /\ strace' # <<>>
    /\ strace'[1][1] \in ConnectKinds
    /\ strace'[1][2] = "connected"

\* C17 (at most one open resource per instance): after any sequence of
\* connect(), disconnect() and send() the client owns at most one open
\* transport, and connect() on a connected client opens nothing; after any
\* sequence of acquire() and release() a LockClient owns at most one open
\* descriptor on the lock file (no open replaces a descriptor still open).
C17_OneOpenResource ==
    [][/\ Cardinality(transports') <= 1
       /\ transports' \subseteq {pipe'}
       /\ ConnectWhileConnected =>
              /\ Count(strace', "open") = 0
              /\ pipe' = pipe /\ transports' = transports
       /\ \A i \in Inst : (desc'[i] # desc[i] /\ desc'[i] # 0) => desc[i] = 0]_vars

C17_Witness ==
    /\ strace = << <<"connect", "connected">>, <<"return", "guard(self)">> >>
    /\ is_connect /\ transports = {pipe}
    /\ is_locked(1) /\ desc[1] # 0
    /\ trace[1] = << <<"acquire", "held">>, <<"return", "guard(self)">> >>

\* disconnect() has returned: called on its own, or by the exit of a with-form.
DisconnectReturned ==
    /\ Count(strace, "disconnect") = 1
    /\ strace[Len(strace)] = <<"return", "None">>

\* C18 (disconnect always ends disconnected): after disconnect() returns,
\* is_connect is false, both when closing the transport succeeded and when the
\* close raised (logged, not propagated); on a disconnected client
\* disconnect() does nothing.
C18_DisconnectEndsDisconnected ==
    DisconnectReturned =>
        /\ ~is_connect
        /\ Count(strace, "raise") = 0
        /\ Has(strace, <<"disconnect", "disconnected">>) => Count(strace, "close") = 0

\* How many bytes the sequence led by byte h has; 0 when h leads none.
SeqLen(h) ==
    IF h < 128 THEN 1
    ELSE IF h >= 192 /\ h < 224 THEN 2
    ELSE IF h >= 224 /\ h < 240 THEN 3
    ELSE IF h >= 240 /\ h < 248 THEN 4
    ELSE 0

\* What a peer that reads UTF-8 makes of the bytes b: the code points, or
\* <<-1>> from the first byte on that is not part of a well-formed sequence.
RECURSIVE Decoded(_)
Decoded(b) ==
    IF b = <<>> THEN <<>>
    ELSE LET h == Head(b)
             n == SeqLen(h)
         IN  IF n = 0 \/ Len(b) < n \/ \E k \in 2..n : b[k] \notin 128..191
             THEN <<-1>>
             ELSE LET cp == IF n = 1 THEN h
                            ELSE IF n = 2 THEN (h - 192) * 64 + (b[2] - 128)
                            ELSE IF n = 3
                            THEN (h - 224) * 4096 + (b[2] - 128) * 64 + (b[3] - 128)
                            ELSE (h - 240) * 262144 + (b[2] - 128) * 4096
                                 + (b[3] - 128) * 64 + (b[4] - 128)
                  IN  <<cp>> \o Decoded(SubSeq(b, n + 1, Len(b)))

\* send(m) ran on a connected client with a line that has a UTF-8 encoding.
SentConnected ==
    /\ Has(strace, <<"send", "connected">>)
    /\ Encodable(wire.line)

SentQuietly ==
    /\ Has(strace, <<"send", "connected">>)
    /\ Count(strace, "log") = 0
    /\ strace[Len(strace)] = <<"return", "None">>

\* C20 (send writes the message fully): on a transport that may accept fewer
\* bytes than a write offers, whenever send(m) returns without having logged
\* a failure, all bytes of the UTF-8 encoding of m have been written.
C20_WrittenFully ==
    SentQuietly => wire.got = Utf8(wire.line)

\* The step is a send(): the trace of the operation that ends it starts there.
SendStep == strace' # <<>> /\ strace'[1][1] = "send"

\* C21 (send is best-effort and state-preserving): send() on a disconnected
\* client writes nothing and does not resolve or touch the endpoint; send()
\* on a connected client never raises, whatever the encode or write failure;
\* in every case is_connect and the owned transport are left unchanged.
C21_SendBestEffort ==
    [][SendStep =>
           /\ pipe' = pipe /\ transports' = transports
           /\ Count(strace', "raise") = 0
           /\ strace'[Len(strace')] = <<"return", "None">>
           /\ ~is_connect =>
                  /\ strace' = << <<"send", "disconnected">>, <<"return", "None">> >>
                  /\ wire'.writes = 0 /\ wire'.got = <<>>]_vars

C21_Witness ==
    /\ Has(strace, <<"send", "connected">>)
    /\ Has(strace, <<"write", "OSError">>)
    /\ Has(strace, <<"log", "Failed to send data over socket">>)
    /\ is_connect /\ transports = {pipe}

\* A variable or an override that has a value and is not empty.
Usable(v) == v # None /\ v # <<>>

\* The directory the precedence runtime, home, temp picks in environment en.
ChosenDir(en) ==
    IF Usable(en["XDG_RUNTIME_DIR"]) THEN en["XDG_RUNTIME_DIR"]
    ELSE IF Usable(en["HOME"]) THEN en["HOME"]
    ELSE IF Usable(en["TMPDIR"]) THEN en["TMPDIR"]
    ELSE None

\* Two spellings of one POSIX path: the same components from the same root.
SamePath(a, b) ==
    /\ PathParts(a, <<>>) = PathParts(b, <<>>)
    /\ StartsWith(a, <<"/">>) <=> StartsWith(b, <<"/">>)

\* The entry .<name> of directory d, spelled out.
DotEntry(d, nm) == d \o <<"/", ".">> \o nm

\* C22 (address resolution precedence): a non-empty override is the resolved
\* address; otherwise on POSIX the address is <dir>/.<name> for the first
\* non-empty of the runtime, home and temp directory variables (so with only
\* the home variable set it is <home>/.<name>), and on Windows it is the
\* pipe-namespace path built from the name.
C22_ResolutionPrecedence ==
    conf.cached # None =>
        IF Usable(conf.default_path) THEN conf.cached = conf.default_path
        ELSE IF windows_check
        THEN conf.cached = <<BSlash, BSlash, ".", BSlash, "p", "i", "p", "e", BSlash>>
                               \o conf.name
        ELSE LET d == ChosenDir(conf.env)
             IN  /\ d # None
                 /\ SamePath(conf.cached, DotEntry(d, conf.name))
                 /\ (d[Len(d)] # "/" /\ conf.name # <<>>) =>
                        conf.cached = DotEntry(d, conf.name)

C22_Witness ==
    /\ ~windows_check
    /\ conf.default_path = None
    /\ conf.env = [v \in EnvVars |-> IF v = "HOME" THEN <<"/", "h">> ELSE None]
    /\ conf.cached = <<"/", "h", "/", ".", "n">>
    /\ is_connect

\* On POSIX, no override and none of the three directory variables set to a
\* non-empty value.
NoAddress ==
    /\ ~windows_check
    /\ conf.default_path = None
    /\ ChosenDir(conf.env) = None

\* C23 (configuration error is raised at construction): on POSIX, with no
\* override and none of the three directory variables set (or all empty),
\* constructing the SocketClient raises SocketPathError, before connect(),
\* send() or disconnect() is ever called and before any OS resource is
\* touched.
C23_RaisedAtConstruction ==
    (NoAddress /\ conf.built # "none") =>
        /\ conf.built = "SocketPathError"
        /\ strace = << <<"construct", "SocketPathError">> >>

\* An override the construction has to refuse: blank; on POSIX an existing
\* directory; on Windows one not in canonical form.
Refused(ov, isdir) ==
    /\ ov # None
    /\ \/ \A k \in 1..Len(ov) : ov[k] = " "
       \/ ~windows_check /\ isdir
       \/ /\ windows_check
          /\ \/ \E k \in 1..Len(ov) : ov[k] = "X"
             \/ ov[Len(ov)] = BSlash
             \/ Len(ov) < 8
             \/ SubSeq(ov, 1, 8) # <<BSlash, BSlash, ".", BSlash, "p", "i", "p", "e">>

\* C24 (override validation): constructing a SocketClient raises
\* SocketValidateError for an override that is empty or whitespace-only, for
\* a POSIX override that is an existing directory, and on Windows for an
\* override not in canonical form (not lower-case, trailing backslash, or
\* not starting with the pipe namespace prefix); None and every other
\* override are accepted.
C24_OverrideValidation ==
    conf.built # "none" =>
        conf.built = IF Refused(conf.default_path, conf.isdir)
                     THEN "SocketValidateError"
                     ELSE "ok"

C24_Witness ==
    /\ windows_check
    /\ conf.default_path = <<BSlash, BSlash, ".", BSlash, "p", "i", "p", "e", BSlash, "X">>
    /\ strace = << <<"construct", "SocketValidateError">> >>

\* Instance i holds the lock on the file at the lock path and is not in the
\* middle of releasing it.
HoldsLockFile(i) ==
    /\ is_locked(i) /\ lk[i] /\ desc[i] = path
    /\ pc[i] \in {"idle", "body"}

\* C25 (lock file permissions on POSIX): in every state where an instance
\* holds the lock the mode of the lock file is 0600, and release() has set it
\* back to 0644 before the descriptor is closed.
C25_LockFileMode ==
    ~windows_check =>
        \A i \in Inst :
            /\ HoldsLockFile(i) => pmode = 384
            /\ (pc[i] = "rel_close" /\ desc[i] = path) => pmode = 420

\* The operation a trace belongs to starts with one of kinds.
StartsAs(tr, kinds) == tr # <<>> /\ tr[1][1] \in kinds

\* C26 (single attempt, no internal retry): each acquire() makes at most one
\* create-and-open attempt and at most one lock attempt, each connect() at
\* most one attempt to open the transport, whatever the outcome; wait() is
\* the only operation that repeats an OS probe.
C26_SingleAttempt ==
    /\ \A i \in Observed :
           /\ StartsAs(trace[i], AcquireKinds) =>
                  /\ Count(trace[i], "open") <= 1
                  /\ Count(trace[i], "lock") <= 1
           /\ Count(trace[i], "open_rw") <= 1
           /\ Count(trace[i], "probe_lock") <= 1
           /\ Has(trace[i], <<"sleep", "interval">>) =>
                  StartsAs(trace[i], {"wait_T", "wait_None"})
    /\ StartsAs(strace, ConnectKinds) => Count(strace, "open") <= 1

C26_Witness ==
    /\ strace = << <<"connect", "disconnected">>, <<"open", "ConnectionRefusedError">>,
                   <<"log", "Socket connection failed">>, <<"return", "guard(self)">> >>
    /\ trace[1] = << <<"acquire", "free">>, <<"open", "ok">>, <<"lock", "EIO">>,
                     <<"log", "warning: Permission denied during file lock operation">>,
                     <<"close", "ok">>, <<"return", "guard(self)">> >>
    /\ ~is_connect /\ ~is_locked(1)

\* No process has terminated and none is inside an operation of the core.
AllLiveAtRest == \A j \in Inst : pc[j] \in {"idle", "body"}

\* The lock file is there, no instance has is_locked true and no OS lock is
\* held on the file.
Orphaned == path # 0 /\ \A j \in Inst : ~is_locked(j) /\ ~lk[j]

\* C27 (orphaned only through termination without release): no interleaving
\* of acquire(), release(), exists_running and wait() among live processes,
\* an acquire() whose lock step fails after it created the file and a probe
\* that momentarily takes the lock included, ends in the orphaned state.
C27_OrphanOnlyByCrash == AllLiveAtRest => ~Orphaned

\* The lock file is there, no live instance holds it and none is about to
\* end a release() with its unlink.
OrphanedFile == path # 0 /\ \A j \in Inst : ~is_locked(j) /\ pc[j] # "rel_unlink"

\* C28 (orphaned lock is permanent): once the lock file exists while no live
\* instance holds it, every later acquire() by any instance ends with
\* is_locked false, and no operation of the core (acquire, release on a
\* non-holder, exists_running, wait) deletes the file: the state persists.
C28_OrphanPermanent ==
    [][OrphanedFile =>
           /\ path' = path
           /\ \A j \in Inst : ~is_locked(j)' /\ pc'[j] # "rel_unlink"
           /\ \A i \in Observed :
                  (/\ pc[i] = "idle" /\ trace'[i] # trace[i]
                   /\ StartsAs(trace'[i], AcquireKinds)) =>
                      /\ Count(trace'[i], "open") = 1
                      /\ ~Has(trace'[i], <<"open", "ok">>)
                      /\ Count(trace'[i], "lock") = 0]_vars

C28_Witness ==
    /\ OrphanedFile
    /\ \E j \in Inst : pc[j] = "dead"
    /\ trace[1] = << <<"acquire", "free">>, <<"open", "EEXIST">>,
                     <<"return", "guard(self)">> >>

\* Entry a comes before entry b in trace tr, both being there.
Before(tr, a, b) == Pos(tr, a) > 0 /\ Pos(tr, a) < Pos(tr, b)

\* C29 (release step order on POSIX): release() of a held instance first
\* waits the fixed delay with the OS lock still held and the file still
\* present, then releases the OS lock, then restores the permission bits,
\* then closes the descriptor, then deletes the file, in exactly this order.
C29_ReleaseOrder ==
    ~windows_check =>
        \A i \in Observed :
            /\ pc[i] = "rel_sleep" => lk[i] /\ path # 0 /\ desc[i] = path
            /\ HeldReleaseEnded(i) =>
                   /\ Before(trace[i], "release", "sleep")
                   /\ Before(trace[i], "sleep", "unlock")
                   /\ Before(trace[i], "unlock", "fchmod")
                   /\ Before(trace[i], "fchmod", "close")
                   /\ Before(trace[i], "close", "unlink")

\* Observed process i, whose instance is not held, calls release() in this
\* step: directly, or by leaving the body of a with-form.
ReleaseWhileFree(i) ==
    /\ ~is_locked(i)
    /\ \/ pc[i] = "idle" /\ trace'[i] # trace[i] /\ StartsAs(trace'[i], {"release"})
       \/ pc[i] = "body" /\ pc'[i] \notin {"body", "dead"}

\* The entries of trace tr from its release() on.
FromRelease(tr) == SubSeq(tr, Pos(tr, "release"), Len(tr))

\* C30 (release on a non-holder is a pure no-op): when is_locked is false,
\* release(), called directly or by the exit of a guard returned from a
\* failed acquire, makes no OS call, does not sleep and does not delete the
\* lock file: the instance that lost the race never removes or unlocks the
\* file of the instance that holds the lock.
C30_ReleaseFreeNoOp ==
    [][\A i \in Observed :
          ReleaseWhileFree(i) =>
              /\ pc'[i] = "idle"
              /\ \A k \in 1..Len(FromRelease(trace'[i])) :
                     FromRelease(trace'[i])[k][1] \in {"release", "return", "exit"}
              /\ path' = path /\ pmode' = pmode
              /\ fd' = fd /\ desc' = desc /\ lk' = lk]_vars

C30_Witness ==
    /\ trace[1] = << <<"with_guard", "free">>, <<"open", "EEXIST">>,
                     <<"return", "guard(self)">>, <<"body", "normal">>,
                     <<"release", "free">>, <<"return", "None">>, <<"exit", "normal">> >>
    /\ path # 0
    /\ \E j \in Inst \ {1} : is_locked(j) /\ lk[j] /\ desc[j] = path

\* Observed process i's acquire() has ended after its lock step failed with
\* errno r.
LockStepFailed(i, r) ==
    /\ pc[i] \in {"idle", "body"}
    /\ StartsAs(trace[i], AcquireKinds)
    /\ Count(trace[i], "release") = 0
    /\ Has(trace[i], <<"lock", r>>)

\* C31 (classification of lock-step failures in acquire()): EACCES is logged
\* as the permission-denied warning, ENOSYS at elevated severity as 'locking
\* not supported', any other OSError at elevated severity as unexpected; in
\* all three cases the descriptor is closed and the instance ends not held.
C31_LockFailureClasses ==
    \A i \in Observed :
        \A r \in {"EACCES", "ENOSYS", "EIO", "EAGAIN"} :
            LockStepFailed(i, r) =>
                /\ Has(trace[i],
                       <<"log",
                         CASE r = "EACCES" ->
                                  "warning: Permission denied during file lock operation"
                           [] r = "ENOSYS" ->
                                  "exception: Locking not supported on filesystem"
                           [] OTHER -> "exception: Failed to locking file">>)
                /\ Count(trace[i], "log") = 1
                /\ Has(trace[i], <<"close", "ok">>)
                /\ ~is_locked(i) /\ desc[i] = 0

----
\* The bound of wait().

\* ceil(T / I) for integers T >= 0 and I > 0.
CeilDiv(T, I) == (T + I - 1) \div I

\* The timed wait() the observer follows evaluated exists_running at most
\* ceil(T/I)+1 times.
ProbesBounded ==
    mon.wobs.res # "none" => mon.wobs.n <= CeilDiv(mon.wobs.T, mon.wobs.I) + 1

\* A timed wait() that has made all these evaluations can only return.
LastProbeReturns ==
    \A i \in Observed :
        (pc[i] = "wait_check" /\ ctx[i] = "wait_T" /\ mon.wobs.who = i
            /\ mon.wobs.res = "running" /\ mon.wobs.n = CeilDiv(mon.wobs.T, mon.wobs.I) + 1) => TimedOut(i)

\* wait(timeout=None) never returns False, and it has returned exactly when an
\* evaluation of exists_running yielded False.
NoneEndsOnFalse ==
    \A i \in Observed :
        (trace[i] # <<>> /\ trace[i][1][1] = "wait_None") =>
            /\ ~Has(trace[i], <<"wait_return", "False">>)
            /\ Has(trace[i], <<"wait_return", "True">>) <=> Has(trace[i], <<"return", "False">>)
            /\ pc[i] = "idle" <=> Has(trace[i], <<"wait_return", "True">>)

\* A timed wait() that is running stops running.
TimedWaitEnds == \A i \in Observed : (ctx[i] = "wait_T") ~> (ctx[i] # "wait_T")

\* C32 as stated (wait terminates within its bound): for every finite timeout
\* T >= 0 and interval I > 0, wait(timeout=T, interval=I) terminates even if
\* exists_running stays true forever, after at most ceil(T/I)+1 probes and no
\* later than T+I after it started; with timeout=None it terminates if and
\* only if some probe yields false.
C32_WaitBound ==
    /\ ProbesBounded
    /\ LastProbeReturns
    /\ mon.wobs.at <= mon.wobs.T + mon.wobs.I
    /\ NoneEndsOnFalse

\* C32, amended (wait terminates within its bound): wait(timeout=T, interval=I)
\* terminates even if exists_running stays true forever, after at most
\* ceil(T/I)+1 probes; its last sleep starts before T has elapsed, so that it
\* returns no later than T+I plus the time by which that sleep overran; with
\* timeout=None it terminates if and only if some probe yields false.
C32_WaitBoundAmended ==
    /\ [](/\ ProbesBounded
          /\ LastProbeReturns
          /\ mon.wobs.prev >= 0 =>
                 /\ mon.wobs.prev < mon.wobs.T
                 /\ mon.wobs.at <= mon.wobs.prev + mon.wobs.I + MaxLag
          /\ NoneEndsOnFalse)
    /\ TimedWaitEnds

\* A wait(timeout=2, interval=1) timed out after its third evaluation.
C32_Witness ==
    /\ mon.wobs.res = "False"
    /\ mon.wobs.T = 2 /\ mon.wobs.I = 1
    /\ mon.wobs.n = 3
    /\ \E i \in Observed : pc[i] = "idle" /\ Has(trace[i], <<"wait_return", "False">>)

----
\* Ownership of the lock file.

\* Instance i is between two operations (in the body of a with-form included).
AtRest(i) == pc[i] \in {"idle", "body"}

\* The lock file exists at the lock path, it is the file i created and holds
\* open, and i holds the OS lock on it.
OwnsLockFile(i) == path # 0 /\ fd[i] = path /\ desc[i] = path /\ lk[i]

\* C33 (held means owned): at every point between operations, if an instance
\* has is_locked == true then the backing lock file exists at the lock path,
\* it is the file that this instance created, and this instance holds the OS
\* advisory lock on it; this holds after any sequence of acquire() and
\* release() calls, including release() calls whose unlock or close step
\* failed.
C33_HeldMeansOwned == \A i \in Inst : (AtRest(i) /\ is_locked(i)) => OwnsLockFile(i)

\* The release() of instance i ends by removing the lock file.
ReleaseRemoves(i) == pc[i] = "rel_unlink" /\ pc'[i] = "idle" /\ path # 0 /\ path' = 0

\* Another instance than i created the lock file at the lock path and holds
\* the lock on it.
HeldByOther(i) == \E j \in Inst \ {i} : is_locked(j) /\ fd[j] = path /\ desc[j] = path /\ lk[j]

\* C34 (a release only deletes its own file): in every run with several
\* instances on the same lock path, including runs where a release() fails
\* part-way and is called again later, the unlink performed by an instance's
\* release() removes only the lock file that this same instance created in
\* its acquire(), never a lock file created by another instance that
\* currently holds the lock.
C34_ReleaseDeletesOwnFile ==
    [][\A i \in Inst :
          ReleaseRemoves(i) =>
              /\ is_locked(i) => fd[i] = path
              /\ ~HeldByOther(i)]_vars

----
\* The effect of exists_running and wait().

\* Instance i starts exists_running or wait() in this step.
ProbeStarts(i) ==
    /\ pc[i] = "idle"
    /\ \/ pc'[i] = "p_open"
       \/ /\ pc'[i] = "idle" /\ trace'[i] # trace[i] /\ trace'[i] # <<>>
          /\ trace'[i][1][1] \in {"exists_running", "wait_T", "wait_None"}

\* This step is one of an exists_running or a wait() of instance i.
ProbeStep(i) ==
    \/ ProbeStarts(i)
    \/ pc[i] \in {"p_open", "p_lock", "p_unlock", "wait_check"} /\ pc'[i] \notin {pc[i], "dead"}

\* With this step an evaluation of exists_running of instance i returns, and
\* with it wait() when it does not go on.
ProbeStepReturns(i) == ProbeStep(i) /\ pc'[i] \in {"idle", "wait_check"}

\* C35 (the probe has no lasting effect): an evaluation of exists_running
\* never changes is_locked of any instance, never creates or deletes the lock
\* file, and when it returns it holds no OS lock and no open descriptor on
\* the file, whatever its result; the same holds for wait().
C35_ProbeNoLastingEffect ==
    [][\A i \in Inst :
          ProbeStep(i) =>
              /\ \A j \in Inst : is_locked(j)' = is_locked(j)
              /\ path' = path /\ pmode' = pmode
              /\ \A j \in Inst \ {i} : desc'[j] = desc[j] /\ lk'[j] = lk[j]
              /\ ProbeStepReturns(i) =>
                     IF is_locked(i)
                     THEN desc'[i] = desc[i] /\ lk'[i] = lk[i]
                     ELSE desc'[i] = 0 /\ ~lk'[i]]_vars

\* An evaluation of exists_running by a wait() took the OS lock on a lock
\* file nobody had locked, gave it back and answered False, and wait()
\* returned True: the caller holds nothing and the file is still there.
C35_Witness ==
    \E i \in Observed :
        /\ pc[i] = "idle"
        /\ trace[i] # <<>> /\ trace[i][1][1] \in {"wait_T", "wait_None"}
        /\ Has(trace[i], <<"probe_lock", "ok">>)
        /\ Has(trace[i], <<"probe_unlock", "ok">>)
        /\ Has(trace[i], <<"wait_return", "True">>)
        /\ ~is_locked(i) /\ desc[i] = 0 /\ ~lk[i]
        /\ path # 0

----
\* Nested with-forms.

\* The with-form nested in the body of another one was entered on an
\* instance that held the lock.
NestedWhileHeld(tr) ==
    \E k \in 2..Len(tr) : tr[k] \in {<<"with_guard", "held">>, <<"with_self", "held">>}

\* The __exit__ of that nested with-form returns in this step.
InnerExitReturns(i) ==
    /\ pc[i] = "rel_unlink"
    /\ ctx[i] = "with_in"
    /\ pc'[i] # "dead"
    /\ NestedWhileHeld(trace[i])
    /\ Has(trace'[i], <<"return", "None">>)

\* That __exit__ has returned and the outer body runs on.
InnerExited(i) ==
    /\ pc[i] = "body"
    /\ ctx[i] = "with"
    /\ NestedWhileHeld(trace[i])
    /\ Has(trace[i], <<"return", "None">>)

\* The __exit__ of the outer with-form runs in this step.
OuterExit(i) == InnerExited(i) /\ pc'[i] \in {"idle", "rel_sleep"}

====
